---- MODULE Spec2Model ----
(***************************************************************************)
(* Model of the EMT Madrid Telegram bot (src/src/emtBot.js, first unit of  *)
(* the file, lines 1-596): the stop cache and its background population,   *)
(* the stop normaliser, the query resolver (findStops), the arrival        *)
(* fetcher and the two request pipelines (inline query, refresh callback). *)
(*                                                                         *)
(* JavaScript strings are sequences of one-character symbols; a few        *)
(* multi-character symbols ("refresh", "ida", "vuelta", "Parada",          *)
(* "backquote") stand for fixed words and marks of the program text.       *)
(***************************************************************************)
EXTENDS Integers, Sequences, FiniteSets, TLC

\* ------------------------------------------------------------------ bounds
\* settings.maxResults (6 in src/src/settings.js:7), scaled down so that the
\* cap is reached inside the bounded id range and the bounded API answers.
maxResults == 2
\* maxId of buildStopCache (6500 in the source), scaled down; like the
\* source's value it is a multiple of step.
maxId == 12
\* step of buildStopCache (100 in the source), scaled down.
step == 6
\* Longest answer of the stops-near-location API that is explored.
MaxApiStops == 3
\* Number of request slots the state holds.
MaxSlots == 2
\* Number of requests (inline queries, callback queries) a behaviour receives.
MaxRequests == 1
\* settings.maxColumnWidth (18 in src/src/settings.js:15), scaled down; like
\* the source's value it is longer than the omission mark of _.truncate.
maxColumnWidth == 4
\* Longest list of arrivals that is rendered on its own.
MaxArrivals == 2

\* ----------------------------------------------------------------- strings
DigitChars == <<"0", "1", "2", "3", "4", "5", "6", "7", "8", "9">>

Digits == {DigitChars[i] : i \in 1..10}

RECURSIVE ToStr(_)
\* String(n) for a non-negative integer n.
ToStr(n) == IF n < 10 THEN <<DigitChars[n + 1]>>
            ELSE ToStr(n \div 10) \o <<DigitChars[(n % 10) + 1]>>

\* The value `undefined`, where a string was expected.
Undefined == <<"#undefined">>

WhiteSpace == {" "}

RECURSIVE TrimStart(_)
TrimStart(s) == IF s # <<>> /\ s[1] \in WhiteSpace THEN TrimStart(Tail(s)) ELSE s

RECURSIVE TrimEnd(_)
TrimEnd(s) == IF s # <<>> /\ s[Len(s)] \in WhiteSpace
              THEN TrimEnd(SubSeq(s, 1, Len(s) - 1)) ELSE s

\* String.prototype.trim
Trim(s) == TrimEnd(TrimStart(s))

IsDecimalDigits(s) == s # <<>> /\ \A i \in 1..Len(s) : s[i] \in Digits

\* ExponentPart of the StringNumericLiteral grammar, or nothing.
IsExponentPart(s) ==
    \/ s = <<>>
    \/ /\ s[1] \in {"e", "E"}
       /\ LET t == Tail(s)
              u == IF t # <<>> /\ t[1] \in {"+", "-"} THEN Tail(t) ELSE t
          IN  IsDecimalDigits(u)

\* DecimalDigits, DecimalDigits . DecimalDigits(opt), or . DecimalDigits
IsMantissa(m) ==
    \/ IsDecimalDigits(m)
    \/ \E j \in 1..Len(m) :
          /\ m[j] = "."
          /\ LET a == SubSeq(m, 1, j - 1)
                 b == SubSeq(m, j + 1, Len(m))
             IN  /\ a = <<>> \/ IsDecimalDigits(a)
                 /\ b = <<>> \/ IsDecimalDigits(b)
                 /\ ~(a = <<>> /\ b = <<>>)

IsUnsignedDecimal(s) ==
    \E i \in 1..Len(s) :
        IsMantissa(SubSeq(s, 1, i)) /\ IsExponentPart(SubSeq(s, i + 1, Len(s)))

\* StrDecimalLiteral: an optional sign and an unsigned decimal literal.  The
\* alphabet of the model has none of the letters of "Infinity", "0x", "0o"
\* and "0b", the other forms of the grammar.
IsStrDecimalLiteral(s) ==
    IF s # <<>> /\ s[1] \in {"+", "-"} THEN IsUnsignedDecimal(Tail(s))
    ELSE IsUnsignedDecimal(s)

\* isNaN(+s): ToNumber strips white space, maps the empty string to 0 and
\* any text that is no numeric literal to NaN; +undefined is NaN.
IsNaNString(s) ==
    LET t == Trim(s) IN t # <<>> /\ ~IsStrDecimalLiteral(t)

\* _.startsWith(o, query)
StartsWith(o, query) ==
    Len(query) <= Len(o) /\ SubSeq(o, 1, Len(query)) = query

RECURSIVE SplitFrom(_, _, _)
\* s.split(sep) for a one-character separator, cur being the piece read so far.
SplitFrom(s, sep, cur) ==
    IF s = <<>> THEN <<cur>>
    ELSE IF s[1] = sep THEN <<cur>> \o SplitFrom(Tail(s), sep, <<>>)
    ELSE SplitFrom(Tail(s), sep, cur \o <<s[1]>>)

Split(s, sep) == SplitFrom(s, sep, <<>>)

RECURSIVE PadStart(_, _, _)
\* _.padStart(s, n, ch)
PadStart(s, n, ch) == IF Len(s) >= n THEN s ELSE PadStart(<<ch>> \o s, n, ch)

RECURSIVE SortedSeq(_)
\* The elements of a set of integers in ascending order.
SortedSeq(S) ==
    IF S = {} THEN <<>>
    ELSE LET m == CHOOSE x \in S : \A y \in S : x <= y
         IN  <<m>> \o SortedSeq(S \ {m})

\* _.slice(s, 0, n)
Slice(s, n) == SubSeq(s, 1, IF Len(s) < n THEN Len(s) ELSE n)

RECURSIVE SelectKeys(_, _, _)
\* Array.prototype.filter on a list of integer keys, by their string form.
SelectKeys(keys, query, exact) ==
    IF keys = <<>> THEN <<>>
    ELSE LET o == ToStr(keys[1])
             hit == IF exact THEN o = query ELSE StartsWith(o, query)
         IN  (IF hit THEN <<keys[1]>> ELSE <<>>)
                 \o SelectKeys(Tail(keys), query, exact)

\* ------------------------------------------------------- reference data
\* The line table read from Lines.xml: code (3 digits) and label.
xmlLines ==
    { [Line |-> <<"0", "0", "1">>, Label |-> <<"1">>],
      [Line |-> <<"5", "1", "6">>, Label |-> <<"N", "1", "6">>] }

emptyLocation == [latitude |-> 0, longitude |-> 0]

\* findXmlLine: the rows of the line table with that code (none: undefined).
findXmlLine(lineId) == {o \in xmlLines : o.Line = PadStart(lineId, 3, "0")}

\* ---------------------------------------------------------------- stops
\* The arriving property of a Stop: unset until getArrivingBuses sets it;
\* by is the request slot whose fetch wrote it.
NoArrivals == [set |-> FALSE, buses |-> <<>>, by |-> 0]

NoStop == [Id |-> <<>>, idType |-> "none", Name |-> <<>>, Lines |-> <<>>,
           position |-> emptyLocation, arriving |-> NoArrivals]

Has(rawStop, f) == f \in DOMAIN rawStop

\* `Parada ${newStop.Id}`
DefaultNameEmpty(id) == <<>>

DefaultName(id) == <<"Parada", " ">> \o id

\* The label of one "code/direction" token of a catalog-page stop; the
\* callback returns nothing (undefined) when findXmlLine finds no row.
NodeLineLabel(rawLine) ==
    LET temp == Split(rawLine, "/")
        rows == findXmlLine(temp[1])
    IN  IF rows = {} THEN Undefined
        ELSE LET label == (CHOOSE o \in rows : TRUE).Label
             IN  IF Len(temp) >= 2 /\ temp[2] = <<"1">>
                 THEN label \o <<" ", "ida">>
                 ELSE label \o <<" ", "vuelta">>

\* The label of one line object of a location-search stop.
ApiLineLabelLikeNode(line) ==
    IF line.direction = "1" THEN line.line \o <<" ", "ida">>
    ELSE line.line \o <<" ", "vuelta">>

ApiLineLabel(line) ==
    IF line.direction = "B" THEN line.line \o <<" ", "ida">>
    ELSE line.line \o <<" ", "vuelta">>

RECURSIVE NonEmpty(_)
\* lines.filter(x => x.length > 0)
NonEmpty(lines) ==
    IF lines = <<>> THEN <<>>
    ELSE (IF Len(lines[1]) > 0 THEN <<lines[1]>> ELSE <<>>) \o NonEmpty(Tail(lines))

\* buildStop: the promise's outcome, ok (resolved with stop) or not (rejected).
\* A record with a Node field is a row of the XML: its branch calls
\* getStopLocation, whose stopCache.filter throws (the cache is an object),
\* so the promise is rejected.  The other two branches throw when the line
\* list is missing.
StopShapeNodeLast(rawStop) ==
    IF Has(rawStop, "stopId") THEN "stopId"
    ELSE IF Has(rawStop, "node") THEN "node"
    ELSE IF Has(rawStop, "Node") THEN "Node"
    ELSE "none"

StopShape(rawStop) ==
    IF Has(rawStop, "Node") THEN "Node"
    ELSE IF Has(rawStop, "stopId") THEN "stopId"
    ELSE IF Has(rawStop, "node") THEN "node"
    ELSE "none"

\* The promise of buildStop rejected: with the exception thrown in the
\* branch of that shape (TypeError), or with 'StopBuild->Bad raw stop'.
Rejected(shape, error) ==
    [shape |-> shape, error |-> error, ok |-> FALSE, stop |-> NoStop]

buildStop(rawStop) ==
    IF StopShape(rawStop) = "Node" THEN Rejected("Node", "TypeError")
    ELSE IF StopShape(rawStop) = "stopId" THEN
        IF ~Has(rawStop, "line") THEN Rejected("stopId", "TypeError")
        ELSE [shape |-> "stopId", error |-> "none", ok |-> TRUE,
              stop |-> [Id |-> rawStop.stopId,
                        idType |-> "string",
                        Name |-> IF Has(rawStop, "name") THEN rawStop.name
                                 ELSE DefaultName(rawStop.stopId),
                        Lines |-> [i \in 1..Len(rawStop.line) |->
                                      ApiLineLabel(rawStop.line[i])],
                        position |-> [latitude |-> rawStop.latitude,
                                      longitude |-> rawStop.longitude],
                        arriving |-> NoArrivals]]
    ELSE IF StopShape(rawStop) = "node" THEN
        IF ~Has(rawStop, "lines") THEN Rejected("node", "TypeError")
        ELSE LET rawLines == NonEmpty(rawStop.lines)
             IN [shape |-> "node", error |-> "none", ok |-> TRUE,
                 stop |-> [Id |-> ToStr(rawStop.node),
                           idType |-> "number",
                           Name |-> IF Has(rawStop, "name") THEN rawStop.name
                                    ELSE DefaultName(ToStr(rawStop.node)),
                           Lines |-> [i \in 1..Len(rawLines) |->
                                         NodeLineLabel(rawLines[i])],
                           position |-> [latitude |-> rawStop.latitude,
                                         longitude |-> rawStop.longitude],
                           arriving |-> NoArrivals]]
    ELSE Rejected("none", "Bad raw stop")

\* Promise.all(_.map(raws, buildStop)): every promise, in order.
BuildAll(raws) == [i \in 1..Len(raws) |-> buildStop(raws[i])]

AllBuilt(built) == \A i \in 1..Len(built) : built[i].ok

\* ------------------------------------------------- answers of the EMT API
\* A raw record that has none of the fields Node, stopId, node.
BadRawStop == [name |-> <<"x">>]

\* getNodesLines: the record of one stop id.  Some stops have no name, some
\* have an empty line token, some a line code missing from the line table.
RawNode(i) ==
    LET lines == IF i % 3 = 0 THEN << <<>>, <<"5", "1", "6", "/", "2">> >>
                 ELSE IF i % 3 = 1 THEN << <<"1", "/", "1">> >>
                 ELSE << <<"1", "/", "1">>, <<"9", "9", "9", "/", "1">> >>
    IN  IF i % 4 = 0
        THEN [latitude |-> 40, longitude |-> -3, lines |-> lines, node |-> i]
        ELSE [latitude |-> 40, longitude |-> -3, lines |-> lines,
              name |-> <<"S">> \o ToStr(i), node |-> i]

\* _.range(first, last)
Range(first, last) == first..(last - 1)

\* The answer of getNodesLines with every stop of the range.
FullPage(first, last) ==
    LET ids == SortedSeq(Range(first, last))
    IN  [i \in 1..Len(ids) |-> RawNode(ids[i])]

\* The answers of getNodesLines for a range explored: every stop of the
\* range, with or without a malformed record after them.
CatalogPages(first, last) ==
    {FullPage(first, last), FullPage(first, last) \o <<BadRawStop>>}

\* getStopsFromLocation: the raw stops an answer is made of.
RawLocStops ==
    { [latitude |-> 40, longitude |-> -3,
       line |-> << [line |-> <<"N", "1", "6">>, direction |-> "B"] >>,
       stopId |-> <<"3">>, name |-> <<"A">>],
      [latitude |-> 40, longitude |-> -3,
       line |-> << [line |-> <<"7">>, direction |-> "A"] >>,
       stopId |-> <<"1", "2">>],
      BadRawStop }

\* The answers explored: up to MaxApiStops of them, no stop twice, any order.
LocationAnswers ==
    UNION { {a \in [1..n -> RawLocStops] :
                \A i, j \in 1..n : i # j => a[i] # a[j]} : n \in 0..MaxApiStops }

\* getIncomingBusesToStop: one raw arrival.
Bus(id, t) == [lineId |-> <<"4", "7">>, stopId |-> id,
               destination |-> <<"X">>, busTimeLeft |-> t]

\* The answers of getIncomingBusesToStop explored for a stop.
ArrivalAnswers(id) == { <<Bus(id, 0), Bus(id, 125)>> }

\* The display time of getArrivingBuses.
ArrivalTimeZeroOnly(busTimeLeft) ==
    IF busTimeLeft = 0 THEN <<"<", "<", "<">>
    ELSE IF busTimeLeft = 999999 THEN <<"+", "2", "0">>
    ELSE ToStr(busTimeLeft \div 60)

ArrivalTime(busTimeLeft) ==
    LET timeMin == busTimeLeft \div 60
    IN  IF busTimeLeft = 0 \/ timeMin = 0 THEN <<"<", "<", "<">>
        ELSE IF busTimeLeft = 999999 THEN <<"+", "2", "0">>
        ELSE ToStr(timeMin)

\* _.map(arriving, bus => _.set(bus, 'time', time))
MapArrivals(arriving) ==
    [i \in 1..Len(arriving) |->
        [lineId |-> arriving[i].lineId, stopId |-> arriving[i].stopId,
         destination |-> arriving[i].destination,
         busTimeLeft |-> arriving[i].busTimeLeft,
         time |-> ArrivalTime(arriving[i].busTimeLeft)]]

\* The columns of the table of arrivals, in the order they are printed.
columns == <<"lineId", "destination", "time">>

\* Math.min, Math.max
Min(a, b) == IF a < b THEN a ELSE b

Max(a, b) == IF a > b THEN a ELSE b

RECURSIVE ColumnWidth(_, _, _)
\* The width getColumnWidths ends with for column col, from arrival i on,
\* currentMax being the width so far.
ColumnWidth(arriving, col, currentMax) ==
    IF arriving = <<>> THEN currentMax
    ELSE LET current == Min(Len(arriving[1][col]), maxColumnWidth)
         IN  ColumnWidth(Tail(arriving), col, Max(currentMax, current))

\* getColumnWidths: the width of each column, in the order of columns (the
\* order of the keys of format); no key at all without arrivals.
getColumnWidths(arriving) ==
    [c \in 1..(IF arriving = <<>> THEN 0 ELSE Len(columns)) |->
        ColumnWidth(arriving, columns[c], 0)]

\* The default omission of _.truncate.
Omission == <<".", ".", ".">>

\* _.truncate(value, { length: settings.maxColumnWidth })
truncateNone(value) == value

truncate(value) ==
    IF maxColumnWidth >= Len(value) THEN value
    ELSE LET end == maxColumnWidth - Len(Omission)
         IN  IF end < 1 THEN Omission ELSE SubSeq(value, 1, end) \o Omission

\* _.padEnd that pads nothing.
padEndNone(s, n, ch) == s

RECURSIVE padEnd(_, _, _)
\* _.padEnd(s, n, ch)
padEnd(s, n, ch) == IF Len(s) >= n THEN s ELSE padEnd(s \o <<ch>>, n, ch)

\* The cells of the line of one arrival: each value truncated, then padded
\* to the width of its column.
ArrivingCells(e, widths) ==
    [c \in 1..Len(widths) |-> padEnd(truncate(e[columns[c]]), widths[c], " ")]

RECURSIVE join(_, _)
\* _.join(s, sep)
join(s, sep) ==
    IF s = <<>> THEN <<>>
    ELSE IF Len(s) = 1 THEN s[1]
    ELSE s[1] \o <<sep>> \o join(Tail(s), sep)

\* The table of renderStop: for each arrival its cells and the line printed
\* (the cells joined with a space, between backquotes); no row without
\* arrivals ('Sin estimaciones').
ArrivingTable(arriving) ==
    LET widths == getColumnWidths(arriving)
    IN  [i \in 1..Len(arriving) |->
            LET cells == ArrivingCells(arriving[i], widths)
            IN  [cells |-> cells,
                 text |-> <<"backquote">> \o join(cells, " ")
                              \o <<"backquote">>]]

\* renderStop: the inline result built for a stop (the texts are kept as
\* the values they are made of).
renderStop(stop) ==
    [arriving |-> stop.arriving.buses,
     stopId |-> stop.Id,
     title |-> stop.Id \o <<" ", "-", " ">> \o stop.Name,
     table |-> ArrivingTable(stop.arriving.buses),
     fetchedBy |-> stop.arriving.by,
     description |-> stop.Lines,
     callback_data |-> <<"refresh", ":">> \o stop.Id]

\* ------------------------------------------------------------- the state
VARIABLES
    stopCache,    \* the stop cache: key (the id, as an integer) -> Stop
    insertOrder,  \* the keys of the cache in the order they were inserted
    batch,        \* each population batch: scheduled (the timer set by
                  \* buildStopCache is pending), inflight (getNodesLines
                  \* was called), retry (the timer of a retry is pending)
                  \* or done (its stops are stored)
    req,          \* the request slots: the pipeline of the request in each
    served,       \* the number of requests received so far
    shown,        \* the stop last rendered on its own: its arrivals, the
                  \* column widths and the rows of its table
    normalised    \* the raw stop last normalised on its own, and the
                  \* outcome of buildStop for it

vars == <<stopCache, insertOrder, batch, req, served, shown, normalised>>

\* The variables of the bot proper.
botVars == <<stopCache, insertOrder, batch, req, served>>

Slots == 1..MaxSlots

\* firstId of each batch of buildStopCache: 1, 1 + step, ... below maxId.
NumBatches == ((maxId - 2) \div step) + 1

Batches == 1..NumBatches

BatchFirst(b) == 1 + (b - 1) * step

BatchLastOverlapping(b) == BatchFirst(b) + step + 1

BatchLast(b) == BatchFirst(b) + step

\* Object.keys(stopCache): integer-like keys come in ascending numeric order.
ObjectKeysDescending(cache) ==
    LET keys == SortedSeq(DOMAIN cache)
    IN  [i \in 1..Len(keys) |-> keys[Len(keys) + 1 - i]]

ObjectKeys(cache) == SortedSeq(DOMAIN cache)

\* ------------------------------------------------------------- findStops
\* The synchronous part of findStops: reject, resolve with the cached stops
\* under keys, or call the stops-near-location API (search).
FindStopsLocationFirst(query, location, exact, cache) ==
    LET isNaNQuery == Len(query) # 0 /\ IsNaNString(query)
        isEmptyQuery == Len(query) = 0 \/ isNaNQuery
        isLocationQuery == location.latitude # 0 \/ location.longitude # 0
    IN  IF (isEmptyQuery /\ ~isLocationQuery) \/ isNaNQuery
        THEN [keys |-> <<>>, outcome |-> "reject"]
        ELSE LET foundByQuery ==
                     IF isEmptyQuery \/ isLocationQuery THEN <<>>
                     ELSE Slice(SelectKeys(ObjectKeys(cache), query, exact),
                                maxResults)
             IN  IF Len(foundByQuery) > 0
                 THEN [keys |-> foundByQuery, outcome |-> "resolve"]
                 ELSE [keys |-> <<>>, outcome |-> "search"]

FindStopsUncapped(query, location, exact, cache) ==
    LET isNaNQuery == Len(query) # 0 /\ IsNaNString(query)
        isEmptyQuery == Len(query) = 0 \/ isNaNQuery
        isLocationQuery == location.latitude # 0 \/ location.longitude # 0
    IN  IF (isEmptyQuery /\ ~isLocationQuery) \/ isNaNQuery
        THEN [keys |-> <<>>, outcome |-> "reject"]
        ELSE LET foundByQuery == SelectKeys(ObjectKeys(cache), query, exact)
             IN  IF Len(foundByQuery) > 0
                 THEN [keys |-> foundByQuery, outcome |-> "resolve"]
                 ELSE [keys |-> <<>>, outcome |-> "search"]

FindStopsNoReject(query, location, exact, cache) ==
    LET isNaNQuery == Len(query) # 0 /\ IsNaNString(query)
        isEmptyQuery == Len(query) = 0 \/ isNaNQuery
        foundByQuery ==
            IF isEmptyQuery THEN <<>>
            ELSE Slice(SelectKeys(ObjectKeys(cache), query, exact), maxResults)
    IN  IF Len(foundByQuery) > 0
        THEN [keys |-> foundByQuery, outcome |-> "resolve"]
        ELSE [keys |-> <<>>, outcome |-> "search"]

findStops(query, location, exact, cache) ==
    LET isNaNQuery == Len(query) # 0 /\ IsNaNString(query)
        isEmptyQuery == Len(query) = 0 \/ isNaNQuery
        isLocationQuery == location.latitude # 0 \/ location.longitude # 0
    IN  IF (isEmptyQuery /\ ~isLocationQuery) \/ isNaNQuery
        THEN [keys |-> <<>>, outcome |-> "reject"]
        ELSE LET foundByQuery ==
                     IF isEmptyQuery THEN <<>>
                     ELSE Slice(SelectKeys(ObjectKeys(cache), query, exact),
                                maxResults)
             IN  IF Len(foundByQuery) > 0
                 THEN [keys |-> foundByQuery, outcome |-> "resolve"]
                 ELSE [keys |-> <<>>, outcome |-> "search"]

\* The .then callbacks of the location search: cap, normalise every stop.
LocationStopsFirstOnly(stops) == BuildAll(Slice(stops, 1))

LocationStops(stops) == BuildAll(Slice(stops, maxResults))

\* ------------------------------------------------------------- requests
IdleReq ==
    [query |-> <<>>, exact |-> FALSE, error |-> "none", location |-> emptyLocation,
     stops |-> <<>>, kind |-> "none", pc |-> "idle", keysAtCall |-> {},
     fetch |-> <<>>, locCalls |-> 0, locAnswer |-> <<>>,
     answer |-> [sent |-> FALSE, results |-> <<>>], edits |-> <<>>, acks |-> 0]

\* A slot is free before its first request and once the pipeline of its
\* request has ended or can make no further step.
FreePcs == {"idle", "logged", "hung", "answered", "edited", "done"}

\* A handle on a Stop object: the object stored in the cache under key, or
\* an object of the request's own.
CachedHandle(k) == [cached |-> TRUE, key |-> k, own |-> NoStop]

OwnHandle(stop) == [cached |-> FALSE, key |-> 0, own |-> stop]

StopObject(h) == IF h.cached THEN stopCache[h.key] ELSE h.own

\* The request record after findStops(query, location, exact) was called.
CallFindStops(kind, query, location, exact, acks) ==
    LET f == findStops(query, location, exact, stopCache)
    IN  [IdleReq EXCEPT
            !.kind = kind, !.query = query, !.location = location,
            !.exact = exact, !.keysAtCall = DOMAIN stopCache, !.acks = acks,
            !.pc = IF f.outcome = "reject" THEN "rejected"
                   ELSE IF f.outcome = "resolve" THEN "resolved" ELSE "waitLoc",
            !.error = IF f.outcome = "reject" THEN "empty" ELSE "none",
            !.stops = [i \in 1..Len(f.keys) |-> CachedHandle(f.keys[i])],
            !.locCalls = IF f.outcome = "search" THEN 1 ELSE 0]

\* The inline queries explored: the text typed, and a location or none.
QueryTexts ==
    { <<>>, <<"1">>, <<"1", "2">>, <<" ", "1", " ">>, <<"a">>,
      <<"-", "1">>, <<"1", ".", "5">>, <<"1", "e", "3">> }

RequestLocations ==
    { [latitude |-> 0, longitude |-> 0], [latitude |-> 40, longitude |-> 0],
      [latitude |-> 0, longitude |-> -3] }

InlineRequests ==
    [query : QueryTexts, location : RequestLocations, hasLocation : {TRUE}]
        \cup [query : QueryTexts, location : {emptyLocation}, hasLocation : {FALSE}]

\* bot.on('inline_query')
InlineQuery(r, request) ==
    /\ req[r].pc \in FreePcs
    /\ LET query == Trim(request.query)
           location == IF request.hasLocation THEN request.location
                       ELSE emptyLocation
       IN  req' = [req EXCEPT ![r] =
                      CallFindStops("inline", query, location, FALSE, 0)]
    /\ served' = served + 1
    /\ UNCHANGED <<stopCache, insertOrder, batch, shown, normalised>>

\* processRefresh: the request record after it returned.
processRefresh(stopId) ==
    IF IsNaNString(stopId)
    THEN [IdleReq EXCEPT !.kind = "refresh", !.pc = "done", !.query = stopId]
    ELSE CallFindStops("refresh", stopId, emptyLocation, TRUE, 1)

\* The callback queries explored: the data of the button, or none.
CallbackTexts ==
    { <<"refresh", ":">> \o q : q \in QueryTexts }
        \cup { <<"refresh">>, <<"o">>, <<"o", ":", "1">> }

CallbackRequests ==
    [hasData : {TRUE}, data : CallbackTexts]
        \cup [hasData : {FALSE}, data : {<<>>}]

\* bot.on('callback_query')
CallbackQuery(r, request) ==
    /\ req[r].pc \in FreePcs
    /\ LET parts == Split(request.data, ":")
           acked == [IdleReq EXCEPT !.kind = "callback", !.pc = "done",
                                    !.acks = 1]
       IN  req' = [req EXCEPT ![r] =
                      IF ~request.hasData THEN acked
                      ELSE IF parts[1] = <<"refresh">>
                      THEN processRefresh(IF Len(parts) >= 2 THEN parts[2]
                                          ELSE Undefined)
                      ELSE acked]
    /\ served' = served + 1
    /\ UNCHANGED <<stopCache, insertOrder, batch, shown, normalised>>

\* The final .catch of either pipeline: logs the error.
CatchErrorInlineOnly(r) ==
    /\ req[r].pc = "rejected"
    /\ req[r].kind = "inline"
    /\ req' = [req EXCEPT ![r].pc = "logged"]
    /\ UNCHANGED <<stopCache, insertOrder, batch, served, shown, normalised>>

CatchError(r) ==
    /\ req[r].pc = "rejected"
    /\ req' = [req EXCEPT ![r].pc = "logged"]
    /\ UNCHANGED <<stopCache, insertOrder, batch, served, shown, normalised>>

\* getStopsFromLocation answered: findStops resolves with the normalised
\* stops, or one buildStop is rejected and the .catch of findStops only
\* records the exception, settling nothing.
LocationAnswer(r, answer) ==
    /\ req[r].pc = "waitLoc"
    /\ LET built == LocationStops(answer)
       IN  req' = [req EXCEPT
                      ![r].locAnswer = answer,
                      ![r].pc = IF AllBuilt(built) THEN "resolved" ELSE "hung",
                      ![r].error = IF AllBuilt(built) THEN "none" ELSE "build",
                      ![r].stops = IF AllBuilt(built)
                                   THEN [i \in 1..Len(built) |->
                                            OwnHandle(built[i].stop)]
                                   ELSE <<>>]
    /\ UNCHANGED <<stopCache, insertOrder, batch, served, shown, normalised>>

\* getStopsFromLocation failed: the .catch of findStops records the
\* exception and settles nothing.
LocationFail(r) ==
    /\ req[r].pc = "waitLoc"
    /\ req' = [req EXCEPT ![r].pc = "hung", ![r].error = "location"]
    /\ UNCHANGED <<stopCache, insertOrder, batch, served, shown, normalised>>

\* Inline query: P.all(_.map(stops, getArrivingBuses)) starts every fetch.
StartFetches(r) ==
    /\ req[r].kind = "inline"
    /\ req[r].pc = "resolved"
    /\ req' = [req EXCEPT ![r].pc = "fetching",
                          ![r].fetch = [i \in 1..Len(req[r].stops) |-> "pending"]]
    /\ UNCHANGED <<stopCache, insertOrder, batch, served, shown, normalised>>

\* Refresh: stops.length !== 1 rejects, else the one fetch is started.
RefreshCountOkAtLeastOne(stops) == Len(stops) >= 1

RefreshCountOk(stops) == Len(stops) = 1

RefreshCheck(r) ==
    /\ req[r].kind = "refresh"
    /\ req[r].pc = "resolved"
    /\ req' = IF RefreshCountOk(req[r].stops)
              THEN [req EXCEPT ![r].pc = "fetching", ![r].fetch = <<"pending">>]
              ELSE [req EXCEPT ![r].pc = "rejected", ![r].error = "count"]
    /\ UNCHANGED <<stopCache, insertOrder, batch, served, shown, normalised>>

\* getArrivingBuses: how its promise settles for each outcome of
\* getIncomingBusesToStop: ok (resolved with the stop, the API answered),
\* error (resolved with the error string: the API failed, or the callback
\* that maps the arrivals threw) or rejected.
getArrivingBusesRejecting(outcome) ==
    IF outcome = "answer" THEN "ok"
    ELSE IF outcome = "failure" THEN "error" ELSE "rejected"

getArrivingBuses(outcome) == IF outcome = "answer" THEN "ok" ELSE "error"

\* getArrivingBuses, the API answered: the arrivals are set on the Stop
\* object itself, which is the cache's object for a cached stop.
FetchOk(r, i, arriving) ==
    /\ req[r].pc = "fetching"
    /\ i \in 1..Len(req[r].fetch)
    /\ req[r].fetch[i] = "pending"
    /\ LET h == req[r].stops[i]
           set == [set |-> TRUE, buses |-> MapArrivals(arriving), by |-> r]
       IN  /\ arriving \in ArrivalAnswers(StopObject(h).Id)
           /\ IF h.cached
              THEN /\ stopCache' = [stopCache EXCEPT ![h.key].arriving = set]
                   /\ req' = [req EXCEPT
                                 ![r].fetch[i] = getArrivingBuses("answer")]
              ELSE /\ stopCache' = stopCache
                   /\ req' = [req EXCEPT
                                 ![r].fetch[i] = getArrivingBuses("answer"),
                                 ![r].stops[i].own.arriving = set]
    /\ UNCHANGED <<insertOrder, batch, served, shown, normalised>>

\* getArrivingBuses, the API failed: resolved with the error string (the
\* status "error" stands for every such string).
FetchFail(r, i) ==
    /\ req[r].pc = "fetching"
    /\ i \in 1..Len(req[r].fetch)
    /\ req[r].fetch[i] = "pending"
    /\ req' = [req EXCEPT ![r].fetch[i] = getArrivingBuses("failure")]
    /\ UNCHANGED <<stopCache, insertOrder, batch, served, shown, normalised>>

\* getArrivingBuses, the answer holds an entry that is no object: the map
\* callback throws before stop.arriving is assigned, the .catch resolves
\* with the error string.
FetchMalformed(r, i) ==
    /\ req[r].pc = "fetching"
    /\ i \in 1..Len(req[r].fetch)
    /\ req[r].fetch[i] = "pending"
    /\ req' = [req EXCEPT ![r].fetch[i] = getArrivingBuses("malformed")]
    /\ UNCHANGED <<stopCache, insertOrder, batch, served, shown, normalised>>

AllSettledFirstOnly(fetch) == 1 \in DOMAIN fetch => fetch[1] # "pending"

AllSettled(fetch) == \A i \in 1..Len(fetch) : fetch[i] # "pending"

\* P.all: one rejected promise rejects the whole.
AnyRejected(fetch) == \E i \in 1..Len(fetch) : fetch[i] = "rejected"

\* _.isString(result): getArrivingBuses resolved with an error string.
IsErrorString(status) == status = "error"

RECURSIVE RenderAllFrom(_, _, _)
RenderAllFrom(stops, fetch, i) ==
    IF i > Len(stops) THEN <<>>
    ELSE <<renderStop(StopObject(stops[i]))>> \o RenderAllFrom(stops, fetch, i + 1)

\* The results in the reverse of the order of the stops.
RenderSettledBackFrom(stops, fetch, i) ==
    LET kept == SortedSeq({k \in i..Len(stops) : ~IsErrorString(fetch[k])})
    IN  [j \in 1..Len(kept) |->
            renderStop(StopObject(stops[kept[Len(kept) + 1 - j]]))]

RECURSIVE RenderSettledFrom(_, _, _)
\* _.reject(stops, _.isString) and P.all(_.map(stops, renderStop)), from i on.
RenderSettledFrom(stops, fetch, i) ==
    IF i > Len(stops) THEN <<>>
    ELSE (IF IsErrorString(fetch[i]) THEN <<>>
          ELSE <<renderStop(StopObject(stops[i]))>>)
             \o RenderSettledFrom(stops, fetch, i + 1)

\* Inline query: every fetch settled; the results are rendered and sent.
AnswerInline(r) ==
    /\ req[r].kind = "inline"
    /\ req[r].pc = "fetching"
    /\ AllSettled(req[r].fetch) \/ AnyRejected(req[r].fetch)
    /\ req' = IF AnyRejected(req[r].fetch)
              THEN [req EXCEPT ![r].pc = "rejected", ![r].error = "fetch"]
              ELSE [req EXCEPT
                       ![r].pc = "answered",
                       ![r].answer = [sent |-> TRUE,
                                      results |-> RenderSettledFrom(req[r].stops,
                                                                    req[r].fetch, 1)]]
    /\ UNCHANGED <<stopCache, insertOrder, batch, served, shown, normalised>>

\* Refresh: _.isString(stop) rejects, else the message is edited.
RefreshFetchedAlways(status) == TRUE

RefreshFetched(status) == ~IsErrorString(status)

RefreshRender(r) ==
    /\ req[r].kind = "refresh"
    /\ req[r].pc = "fetching"
    /\ AllSettled(req[r].fetch)
    /\ req' = IF AnyRejected(req[r].fetch)
              THEN [req EXCEPT ![r].pc = "rejected", ![r].error = "fetch"]
              ELSE IF RefreshFetched(req[r].fetch[1])
              THEN [req EXCEPT
                       ![r].pc = "edited",
                       ![r].edits = Append(req[r].edits,
                                       renderStop(StopObject(req[r].stops[1])))]
              ELSE [req EXCEPT ![r].pc = "rejected", ![r].error = "arrivals"]
    /\ UNCHANGED <<stopCache, insertOrder, batch, served, shown, normalised>>

\* ------------------------------------------------------ cache population
\* The timer of loadStopBatch fires: getNodesLines is called.  The timers
\* set by buildStopCache fire in the order of their delays; the timer of a
\* retry has no delay.
BatchTimer(b) ==
    /\ \/ batch[b] = "retry"
       \/ /\ batch[b] = "scheduled"
          /\ \A c \in Batches : c < b => batch[c] # "scheduled"
    /\ batch' = [batch EXCEPT ![b] = "inflight"]
    /\ UNCHANGED <<stopCache, insertOrder, req, served, shown, normalised>>

\* _.map(stops, item => _.set(stopCache, item.Id, item))
SetAllFresh(cache, stops) ==
    [k \in {stops[i].key : i \in 1..Len(stops)} |->
        stops[CHOOSE i \in 1..Len(stops) : stops[i].key = k].stop]

RECURSIVE SetAll(_, _)
\* _.map(stops, item => _.set(stopCache, item.Id, item))
SetAll(cache, stops) ==
    IF stops = <<>> THEN cache
    ELSE LET item == stops[1].stop
             key == stops[1].key
         IN  SetAll([k \in DOMAIN cache \cup {key} |->
                        IF k = key THEN item ELSE cache[k]],
                    Tail(stops))

RECURSIVE NewKeys(_, _)
NewKeys(known, keys) ==
    IF keys = <<>> THEN <<>>
    ELSE (IF keys[1] \in known THEN <<>> ELSE <<keys[1]>>)
             \o NewKeys(known \cup {keys[1]}, Tail(keys))

\* getNodesLines answered: every record is normalised and, if all were, each
\* Stop is stored under its id; a rejected buildStop goes to the .catch,
\* which sets the batch's timer again.
BatchAnswerStoresThenRetries(b, results) ==
    /\ batch[b] = "inflight"
    /\ results \in CatalogPages(BatchFirst(b), BatchLast(b))
    /\ LET built == BuildAll(results)
           items == [i \in 1..Len(built) |->
                        [stop |-> built[i].stop, key |-> results[i].node]]
           first == <<[stop |-> built[1].stop, key |-> results[1].node]>>
       IN  IF AllBuilt(built)
           THEN /\ stopCache' = SetAll(stopCache, items)
                /\ insertOrder' = insertOrder \o
                       NewKeys(DOMAIN stopCache,
                               [i \in 1..Len(items) |-> items[i].key])
                /\ batch' = [batch EXCEPT ![b] = "done"]
           ELSE /\ stopCache' = SetAll(stopCache, first)
                /\ insertOrder' = insertOrder \o
                       NewKeys(DOMAIN stopCache, <<first[1].key>>)
                /\ batch' = [batch EXCEPT ![b] = "retry"]
    /\ UNCHANGED <<req, served, shown, normalised>>

BatchAnswer(b, results) ==
    /\ batch[b] = "inflight"
    /\ results \in CatalogPages(BatchFirst(b), BatchLast(b))
    /\ LET built == BuildAll(results)
           items == [i \in 1..Len(built) |->
                        [stop |-> built[i].stop, key |-> results[i].node]]
       IN  IF AllBuilt(built)
           THEN /\ stopCache' = SetAll(stopCache, items)
                /\ insertOrder' = insertOrder \o
                       NewKeys(DOMAIN stopCache,
                               [i \in 1..Len(items) |-> items[i].key])
                /\ batch' = [batch EXCEPT ![b] = "done"]
           ELSE /\ batch' = [batch EXCEPT ![b] = "retry"]
                /\ UNCHANGED <<stopCache, insertOrder>>
    /\ UNCHANGED <<req, served, shown, normalised>>

\* getNodesLines failed: the .catch sets the batch's timer again.
BatchFailAbandons(b) ==
    /\ batch[b] = "inflight"
    /\ batch' = [batch EXCEPT ![b] = "abandoned"]
    /\ UNCHANGED <<stopCache, insertOrder, req, served, shown, normalised>>

BatchFailRetriesLater(b) ==
    /\ batch[b] = "inflight"
    /\ batch' = [c \in Batches |->
                    IF c = b \/ batch[c] = "scheduled" THEN "retry" ELSE batch[c]]
    /\ UNCHANGED <<stopCache, insertOrder, req, served, shown, normalised>>

BatchFail(b) ==
    /\ batch[b] = "inflight"
    /\ batch' = [batch EXCEPT ![b] = "retry"]
    /\ UNCHANGED <<stopCache, insertOrder, req, served, shown, normalised>>

\* -------------------------------------------------------- specification
\* Nothing was normalised on its own yet.
NothingBuilt ==
    [raw |-> BadRawStop, out |-> buildStop(BadRawStop), done |-> FALSE]

\* Nothing was rendered yet.
NothingShown == [arriving |-> <<>>, rows |-> <<>>, widths |-> <<>>]

Init ==
    /\ stopCache = [k \in {} |-> NoStop]
    /\ insertOrder = <<>>
    /\ batch = [b \in Batches |-> "scheduled"]
    /\ req = [r \in Slots |-> IdleReq]
    /\ served = 0
    /\ shown = NothingShown
    /\ normalised = NothingBuilt

\* The requests of this specification are handled one at a time, in slot 1,
\* each while the cache is being populated.
OneSlot == {1}

Next ==
    \/ \E b \in Batches : BatchTimer(b)
    \/ \E b \in Batches : \E results \in CatalogPages(BatchFirst(b), BatchLast(b)) :
           BatchAnswer(b, results)
    \/ \E b \in Batches : BatchFail(b)
    \/ \E r \in OneSlot : \E request \in InlineRequests :
           served < MaxRequests /\ InlineQuery(r, request)
    \/ \E r \in OneSlot : \E request \in CallbackRequests :
           served < MaxRequests /\ CallbackQuery(r, request)
    \/ \E r \in OneSlot : CatchError(r)
    \/ \E r \in OneSlot : \E answer \in LocationAnswers : LocationAnswer(r, answer)
    \/ \E r \in OneSlot : LocationFail(r)
    \/ \E r \in OneSlot : StartFetches(r)
    \/ \E r \in OneSlot : RefreshCheck(r)
    \/ \E r \in OneSlot : \E i \in 1..Len(req[r].fetch) :
           \E arriving \in ArrivalAnswers(StopObject(req[r].stops[i]).Id) :
               FetchOk(r, i, arriving)
    \/ \E r \in OneSlot : \E i \in 1..Len(req[r].fetch) : FetchFail(r, i)
    \/ \E r \in OneSlot : \E i \in 1..Len(req[r].fetch) : FetchMalformed(r, i)
    \/ \E r \in OneSlot : AnswerInline(r)
    \/ \E r \in OneSlot : RefreshRender(r)

Spec == Init /\ [][Next]_vars

\* ------------------------------------------------- warm-up, with fairness
\* The step of BatchAnswer in which every record of the answer was
\* normalised and the stops were stored.
StoredStep(b) ==
    /\ batch[b] = "inflight"
    /\ batch' = [batch EXCEPT ![b] = "done"]

\* A timer that is set fires; and a batch that is requested again and again
\* is in the end answered with the stops of its range, all well-formed.
WarmUpFairness ==
    \A b \in Batches :
        /\ WF_vars(BatchTimer(b))
        /\ SF_batch(StoredStep(b))

\* The inline query "1", sent without a location.
InlineQueryOne ==
    [query |-> <<"1">>, location |-> emptyLocation, hasLocation |-> FALSE]

\* The warm-up, while one inline query is handled; the location search, if
\* the query comes before its stops are stored, finds nothing or fails.
NextWarmUp ==
    \/ \E b \in Batches : BatchTimer(b)
    \/ \E b \in Batches : \E results \in CatalogPages(BatchFirst(b), BatchLast(b)) :
           BatchAnswer(b, results)
    \/ \E b \in Batches : BatchFail(b)
    \/ \E r \in OneSlot : served < MaxRequests /\ InlineQuery(r, InlineQueryOne)
    \/ \E r \in OneSlot : LocationAnswer(r, <<>>)
    \/ \E r \in OneSlot : LocationFail(r)
    \/ \E r \in OneSlot : StartFetches(r)
    \/ \E r \in OneSlot : \E i \in 1..Len(req[r].fetch) :
           \E arriving \in ArrivalAnswers(StopObject(req[r].stops[i]).Id) :
               FetchOk(r, i, arriving)
    \/ \E r \in OneSlot : \E i \in 1..Len(req[r].fetch) : FetchFail(r, i)
    \/ \E r \in OneSlot : AnswerInline(r)

SpecWarmUp == Init /\ [][NextWarmUp]_vars /\ WarmUpFairness

\* ------------------------------------------------- overlapping requests
\* The callback query of the refresh button of stop 1.
RefreshOne == [hasData |-> TRUE, data |-> <<"refresh", ":", "1">>]

\* Each slot receives one request, the inline query "1" or the refresh of
\* stop 1, and the pipelines of the slots interleave, between them and with
\* the warm-up; the location search, if a request comes before stop 1 is
\* stored, finds nothing or fails.
NextConcurrent ==
    \/ \E b \in Batches : BatchTimer(b)
    \/ \E b \in Batches : \E results \in CatalogPages(BatchFirst(b), BatchLast(b)) :
           BatchAnswer(b, results)
    \/ \E b \in Batches : BatchFail(b)
    \/ \E r \in Slots : req[r].pc = "idle" /\ InlineQuery(r, InlineQueryOne)
    \/ \E r \in Slots : req[r].pc = "idle" /\ CallbackQuery(r, RefreshOne)
    \/ \E r \in Slots : CatchError(r)
    \/ \E r \in Slots : LocationAnswer(r, <<>>)
    \/ \E r \in Slots : LocationFail(r)
    \/ \E r \in Slots : StartFetches(r)
    \/ \E r \in Slots : RefreshCheck(r)
    \/ \E r \in Slots : \E i \in 1..Len(req[r].fetch) :
           \E arriving \in ArrivalAnswers(StopObject(req[r].stops[i]).Id) :
               FetchOk(r, i, arriving)
    \/ \E r \in Slots : \E i \in 1..Len(req[r].fetch) : FetchFail(r, i)
    \/ \E r \in Slots : AnswerInline(r)
    \/ \E r \in Slots : RefreshRender(r)

SpecConcurrent == Init /\ [][NextConcurrent]_vars

\* ------------------------------------------------ rendering, on its own
\* The text of n characters "1234..." (the digits of the positions).
Text(n) == [i \in 1..n |-> DigitChars[(i % 10) + 1]]

\* The values of busTimeLeft explored: now, under a minute, one minute, two
\* minutes and the sentinel of an unknown time.
BusTimes == {0, 59, 60, 125, 999999}

\* The raw arrivals explored: line ids under and over the column width,
\* destinations that are empty, short, as long as the column width and
\* longer than it.
RawBuses ==
    [lineId : {Text(2), Text(maxColumnWidth + 2)},
     stopId : {<<"1">>},
     destination : {Text(n) : n \in {0, 1, maxColumnWidth, maxColumnWidth + 1,
                                     maxColumnWidth + 2}},
     busTimeLeft : BusTimes]

RawArrivals == UNION { [1..n -> RawBuses] : n \in 1..MaxArrivals }

\* getArrivingBuses maps the arrivals of a stop and renderStop prints them.
RenderArrivals(raw) ==
    /\ shown = NothingShown
    /\ LET arriving == MapArrivals(raw)
       IN  shown' = [arriving |-> arriving,
                     rows |-> renderStop([NoStop EXCEPT
                                 !.arriving = [set |-> TRUE, buses |-> arriving,
                                               by |-> 0]]).table,
                     widths |-> getColumnWidths(arriving)]
    /\ UNCHANGED <<botVars, normalised>>

\* One stop is rendered in a behaviour.
NextRender ==
    /\ shown = NothingShown
    /\ \E raw \in RawArrivals : RenderArrivals(raw)

SpecRender == Init /\ [][NextRender]_vars

\* ------------------------------------------- buildStop as a pure function
\* One line object of a location-search stop, with direction d.
ApiLine(d) == [line |-> <<"2", "7">>, direction |-> d]

\* The directions explored: those of the API and two that are not.
ApiDirections == {"A", "B", "1", ""}

\* The values of the line field explored: no, one or two line objects.
ApiLineLists ==
    {<<>>} \cup {<<ApiLine(d)>> : d \in ApiDirections}
           \cup {<<ApiLine(d), ApiLine(e)>> : d, e \in ApiDirections}

\* The "code/direction" tokens explored: both directions, a direction that
\* is neither, no direction, a code missing from the line table, nothing.
NodeTokens ==
    { <<"1", "/", "1">>, <<"1", "/", "2">>, <<"5", "1", "6", "/", "1">>,
      <<"5", "1", "6", "/", "B">>, <<"1">>, <<"9", "9", "9", "/", "1">>, <<>> }

\* The values of the lines field explored: no, one or two tokens.
NodeLineLists ==
    {<<>>} \cup {<<t>> : t \in NodeTokens}
           \cup {<<t, u>> : t, u \in NodeTokens}

\* A field that is missing, or that has one of the values.
Field(f, values) == {<<>>} \cup {f :> v : v \in values}

\* The raw stops explored: every combination of the fields buildStop reads.
RawStops ==
    { a @@ b @@ c @@ d @@ e @@ g @@ [latitude |-> 40, longitude |-> -3] :
        a \in Field("Node", {<< <<"7">> >>}),
        b \in Field("stopId", {<<"3">>}),
        c \in Field("node", {5}),
        d \in Field("name", {<<"S">>}),
        e \in Field("line", ApiLineLists),
        g \in Field("lines", NodeLineLists) }

\* buildStop(rawStop), its promise settled.
BuildOne(rawStop) ==
    /\ ~normalised.done
    /\ normalised' = [raw |-> rawStop, out |-> buildStop(rawStop), done |-> TRUE]
    /\ UNCHANGED <<botVars, shown>>

\* One raw stop is normalised in a behaviour.
NextBuild ==
    /\ ~normalised.done
    /\ \E rawStop \in RawStops : BuildOne(rawStop)

SpecBuild == Init /\ [][NextBuild]_vars

\* ------------------------------------------------------------ the claims
\* findStops was called for the request of slot r.
FindCalled(r) == req[r].kind \in {"inline", "refresh"} /\ req[r].pc # "done"

NonZeroLocation(location) == location.latitude # 0 \/ location.longitude # 0

\* A non-empty query that converts to a number.
NumericQuery(query) == Len(query) # 0 /\ ~IsNaNString(query)

\* The key matches the query: by prefix, or exactly for a refresh.
KeyMatches(k, query, exact) ==
    IF exact THEN ToStr(k) = query ELSE StartsWith(ToStr(k), query)

\* The keys of the cache, as it was when findStops ran, that match.
MatchedAtCall(r) ==
    {k \in req[r].keysAtCall : KeyMatches(k, req[r].query, req[r].exact)}

\* findStops rejected with the empty-request error.
FindRejected(r) == req[r].error = "empty"

\* findStops resolved, with req[r].stops.
FindResolved(r) ==
    \/ req[r].pc \in {"resolved", "fetching", "answered", "edited"}
    \/ req[r].pc \in {"rejected", "logged"} /\ req[r].error \in {"count", "arrivals"}

\* The number of stops of the request whose arrival fetch failed.
FailedFetches(r) ==
    Cardinality({i \in 1..Len(req[r].fetch) : req[r].fetch[i] = "error"})

RECURSIVE Survivors(_, _)
\* The positions, in order, of the stops whose fetch did not fail.
Survivors(fetch, i) ==
    IF i > Len(fetch) THEN <<>>
    ELSE (IF fetch[i] = "error" THEN <<>> ELSE <<i>>) \o Survivors(fetch, i + 1)

\* C1: text-over-location precedence.  When findStops is called with a
\* non-empty numeric query that matches at least one id of the cache and with
\* a non-zero location, it does not reject and does not call the
\* stops-near-location API, and it resolves with stops that are all objects
\* of the cache whose id matched the query.
C1_TextOverLocation ==
    \A r \in Slots :
        ( /\ FindCalled(r)
          /\ NumericQuery(req[r].query)
          /\ NonZeroLocation(req[r].location)
          /\ MatchedAtCall(r) # {} )
        => /\ req[r].locCalls = 0
           /\ FindResolved(r)
           /\ req[r].stops # <<>>
           /\ \A i \in 1..Len(req[r].stops) :
                 /\ req[r].stops[i].cached
                 /\ req[r].stops[i].key \in MatchedAtCall(r)

\* C1 witness: an inline query "1" with a location, answered from a cache
\* that held matching and non-matching ids.
C1_Witness ==
    \E r \in Slots :
        /\ req[r].kind = "inline"
        /\ req[r].query = <<"1">>
        /\ NonZeroLocation(req[r].location)
        /\ MatchedAtCall(r) # {}
        /\ req[r].keysAtCall \ MatchedAtCall(r) # {}
        /\ req[r].pc = "answered"

\* The stop without the arrivals attached to it after normalisation.
AsBuilt(stop) == [stop EXCEPT !.arriving = NoArrivals]

\* C2: fallback on no text match.  When findStops is called with a non-empty
\* numeric query that matches no id of the cache and with a non-zero
\* location, it does not reject: it calls the stops-near-location API once,
\* and once the API has answered and the answer's stops (capped to
\* maxResults) are normalised it resolves with exactly these stops, in the
\* answer's order.
C2_FallbackToLocation ==
    \A r \in Slots :
        ( /\ FindCalled(r)
          /\ NumericQuery(req[r].query)
          /\ NonZeroLocation(req[r].location)
          /\ MatchedAtCall(r) = {} )
        => /\ req[r].locCalls = 1
           /\ ~FindRejected(r)
           /\ req[r].pc = "hung" =>
                 \/ req[r].error = "location"
                 \/ \E i \in 1..Len(req[r].locAnswer) :
                       i <= maxResults /\ ~buildStop(req[r].locAnswer[i]).ok
           /\ FindResolved(r) =>
                 /\ Len(req[r].stops) =
                       (IF Len(req[r].locAnswer) < maxResults
                        THEN Len(req[r].locAnswer) ELSE maxResults)
                 /\ \A i \in 1..Len(req[r].stops) :
                       /\ ~req[r].stops[i].cached
                       /\ AsBuilt(req[r].stops[i].own) =
                              buildStop(req[r].locAnswer[i]).stop

\* C2 witness: the query "12" with a location while only the first batch is
\* in the cache; the API answered two stops and findStops resolved.
C2_Witness ==
    \E r \in Slots :
        /\ req[r].kind = "inline"
        /\ req[r].query = <<"1", "2">>
        /\ NonZeroLocation(req[r].location)
        /\ req[r].keysAtCall # {}
        /\ MatchedAtCall(r) = {}
        /\ req[r].pc = "resolved"
        /\ Len(req[r].stops) = 2

\* C3: all-settle fan-out.  When an inline query resolved N stops and the
\* arrival fetch failed for k of them, the answer sent has N - k results, one
\* per stop whose fetch succeeded, in order, each rendered from the arrivals
\* fetched for that very stop.
C3_AllSettle ==
    \A r \in Slots :
        (req[r].kind = "inline" /\ req[r].pc = "answered")
        => LET alive == Survivors(req[r].fetch, 1)
               results == req[r].answer.results
           IN  /\ req[r].answer.sent
               /\ Len(results) = Len(req[r].stops) - FailedFetches(r)
               /\ Len(results) = Len(alive)
               /\ \A j \in 1..Len(results) :
                     LET stop == StopObject(req[r].stops[alive[j]])
                     IN  /\ results[j].stopId = stop.Id
                         /\ results[j].fetchedBy = r
                         /\ results[j].arriving \in
                                {MapArrivals(a) : a \in ArrivalAnswers(stop.Id)}

\* C3 witness: two stops resolved, the fetch of exactly one failed, and
\* the answer was sent.
C3_Witness ==
    \E r \in Slots :
        /\ req[r].kind = "inline"
        /\ req[r].pc = "answered"
        /\ Len(req[r].stops) = 2
        /\ FailedFetches(r) = 1
        /\ Len(req[r].answer.results) = 1

\* C4: when findStops fails for an inline query, the handler answers the
\* query with an empty result list (stated once the handler's .catch ran).
C4_EmptyAnswerOnResolverFailure ==
    \A r \in Slots :
        (req[r].kind = "inline" /\ FindRejected(r) /\ req[r].pc = "logged")
        => req[r].answer.sent /\ req[r].answer.results = <<>>

\* C5: when the stops-near-location call fails, or normalising one of its
\* results fails, findStops settles with an empty list of stops.
C5_LocationFailureIsNoResults ==
    \A r \in Slots :
        req[r].error \in {"location", "build"}
        => FindResolved(r) /\ req[r].stops = <<>>

\* A token of decimal digits only: a non-negative integer.
NonNegativeIntegerToken(query) == IsDecimalDigits(query)

\* C6, as claimed: findStops rejects whenever no location is supplied and the
\* query is empty or is no non-negative integer token, and then calls no API.
C6_RejectsNonIntegerQuery ==
    \A r \in Slots :
        ( /\ FindCalled(r)
          /\ ~NonZeroLocation(req[r].location)
          /\ req[r].query = <<>> \/ ~NonNegativeIntegerToken(req[r].query) )
        => FindRejected(r) /\ req[r].locCalls = 0

\* C6, amended: findStops rejects whenever no location is supplied and the
\* query is empty or does not convert to a number (isNaN(+query)), and then
\* calls no API and goes to the handler's .catch.
C6_RejectsNaNQuery ==
    \A r \in Slots :
        ( /\ FindCalled(r)
          /\ ~NonZeroLocation(req[r].location)
          /\ req[r].query = <<>> \/ IsNaNString(req[r].query) )
        => /\ FindRejected(r)
           /\ req[r].locCalls = 0
           /\ req[r].pc \in {"rejected", "logged"}

\* C6 witness: the inline query "a" without a location was rejected.
C6_Witness ==
    \E r \in Slots :
        /\ req[r].kind = "inline"
        /\ req[r].query = <<"a">>
        /\ ~NonZeroLocation(req[r].location)
        /\ FindRejected(r)
        /\ req[r].pc = "logged"

\* C7: a non-empty query that is not numeric, with a non-zero location, is
\* handled like an empty query with that location: findStops does not reject
\* and calls the stops-near-location API.
C7_NaNQueryWithLocationSearches ==
    \A r \in Slots :
        ( /\ FindCalled(r)
          /\ Len(req[r].query) # 0
          /\ IsNaNString(req[r].query)
          /\ NonZeroLocation(req[r].location) )
        => ~FindRejected(r) /\ req[r].locCalls = 1

\* C8: on every path the list findStops resolves with has at most
\* maxResults stops.
C8_AtMostMaxResults ==
    \A r \in Slots : FindResolved(r) => Len(req[r].stops) <= maxResults

\* C8 witness: a prefix query that more than maxResults cached ids matched,
\* resolved with maxResults stops.
C8_Witness ==
    \E r \in Slots :
        /\ FindResolved(r)
        /\ ~req[r].exact
        /\ Cardinality(MatchedAtCall(r)) > maxResults
        /\ Len(req[r].stops) = maxResults
        /\ \A i \in 1..Len(req[r].stops) : req[r].stops[i].cached

\* C9: in the refresh path, when findStops resolves with no stop or with more
\* than one, no fetch is started and no editMessageText is sent.
C9_RefreshNeedsOneStop ==
    \A r \in Slots :
        (req[r].kind = "refresh" /\ FindResolved(r) /\ Len(req[r].stops) # 1)
        => /\ req[r].edits = <<>>
           /\ req[r].fetch = <<>>
           /\ req[r].pc \in {"resolved", "rejected", "logged"}

\* C9 witness: a refresh whose id was not cached, the location search
\* answered two stops, and the request ended in the .catch.
C9_Witness ==
    \E r \in Slots :
        /\ req[r].kind = "refresh"
        /\ req[r].pc = "logged"
        /\ req[r].error = "count"
        /\ Len(req[r].stops) = 2

\* C10: in the refresh path, when the arrival fetch of the resolved stop
\* fails, no editMessageText is sent, and the rejection goes to the .catch
\* of processRefresh.
C10_RefreshFetchFailure ==
    \A r \in Slots :
        ( /\ req[r].kind = "refresh"
          /\ Len(req[r].fetch) = 1
          /\ req[r].fetch[1] = "error" )
        => /\ req[r].edits = <<>>
           /\ req[r].pc \in {"fetching", "rejected", "logged"}
           /\ req[r].pc = "rejected" => ENABLED CatchError(r)

\* C10 witness: a refresh of a cached stop whose fetch failed, ended in the
\* .catch.
C10_Witness ==
    \E r \in Slots :
        /\ req[r].kind = "refresh"
        /\ req[r].pc = "logged"
        /\ req[r].error = "arrivals"
        /\ req[r].stops[1].cached

\* C11: getArrivingBuses never rejects.  Whatever the incoming-buses API
\* does for a stop (it answers, it fails, or mapping its answer throws), the
\* promise is resolved: with the stop, which then carries its arrivals, or
\* with the error string; no pipeline sees a rejected fetch.
C11_FetchNeverRejects ==
    \A r \in Slots :
        /\ req[r].error # "fetch"
        /\ \A i \in 1..Len(req[r].fetch) :
              /\ req[r].fetch[i] \in {"pending", "ok", "error"}
              /\ req[r].fetch[i] = "ok" =>
                    /\ StopObject(req[r].stops[i]).arriving.set
                    /\ StopObject(req[r].stops[i]).arriving.buses # <<>>

\* C11 witness: an inline query with two stops, the fetch of the first
\* resolved with the error string and the fetch of the second with the stop.
C11_Witness ==
    \E r \in Slots :
        /\ req[r].kind = "inline"
        /\ req[r].pc = "fetching"
        /\ req[r].fetch = <<"error", "ok">>

\* C12, as claimed: the display time of every arrival is the "arriving now"
\* mark if busTimeLeft is 0, the "more than 20 minutes" mark if it is 999999,
\* and the decimal number floor(busTimeLeft / 60) for every other value.
C12_TimeIsMinutesUnlessZero ==
    \A i \in 1..Len(shown.arriving) :
        LET t == shown.arriving[i].busTimeLeft
        IN  shown.arriving[i].time =
                IF t = 0 THEN <<"<", "<", "<">>
                ELSE IF t = 999999 THEN <<"+", "2", "0">>
                ELSE ToStr(t \div 60)

\* C12, amended: the display time of every arrival is the "arriving now"
\* mark if busTimeLeft is under 60 (floor(busTimeLeft / 60) is 0), the "more
\* than 20 minutes" mark if it is 999999, and the decimal number
\* floor(busTimeLeft / 60) for every other value.
C12_TimeUnderAMinuteIsNow ==
    \A i \in 1..Len(shown.arriving) :
        LET t == shown.arriving[i].busTimeLeft
        IN  shown.arriving[i].time =
                IF t < 60 THEN <<"<", "<", "<">>
                ELSE IF t = 999999 THEN <<"+", "2", "0">>
                ELSE ToStr(t \div 60)

\* C12 witness: arrivals 59 seconds and 125 seconds away were mapped.
C12_Witness ==
    /\ Len(shown.arriving) = 2
    /\ shown.arriving[1].busTimeLeft = 59
    /\ shown.arriving[1].time = <<"<", "<", "<">>
    /\ shown.arriving[2].busTimeLeft = 125
    /\ shown.arriving[2].time = <<"2">>

\* The three values of an arrival that are printed, in the order printed.
PrintedFields(e) == <<e.lineId, e.destination, e.time>>

\* The text is s, followed by spaces only.
PaddedFrom(text, s) ==
    /\ StartsWith(text, s)
    /\ \A k \in (Len(s) + 1)..Len(text) : text[k] = " "

\* C13: in the table rendered for a stop with at least one arrival, every
\* row has three cells, made of lineId, destination and time in that order;
\* every column has one width in all rows, which is the largest over the
\* arrivals of min(length of the value, maxColumnWidth) and so at most
\* maxColumnWidth; a value longer than maxColumnWidth is cut to
\* maxColumnWidth characters, a shorter one is padded with spaces.
C13_ColumnsWithinWidth ==
    shown.arriving # <<>> =>
        /\ Len(shown.rows) = Len(shown.arriving)
        /\ \A i \in 1..Len(shown.rows) :
              LET cells == shown.rows[i].cells
                  fields == PrintedFields(shown.arriving[i])
              IN  /\ Len(cells) = 3
                  /\ \A c \in 1..3 :
                        /\ Len(cells[c]) <= maxColumnWidth
                        /\ \A j \in 1..Len(shown.rows) :
                              Len(shown.rows[j].cells[c]) = Len(cells[c])
                        /\ \E j \in 1..Len(shown.arriving) :
                              Len(cells[c]) =
                                  Min(Len(PrintedFields(shown.arriving[j])[c]),
                                      maxColumnWidth)
                        /\ IF Len(fields[c]) <= maxColumnWidth
                           THEN PaddedFrom(cells[c], fields[c])
                           ELSE /\ Len(cells[c]) = maxColumnWidth
                                /\ StartsWith(cells[c],
                                       SubSeq(fields[c], 1, maxColumnWidth - 3))

\* C13 witness: two arrivals were rendered, the destination of the first
\* longer than maxColumnWidth and cut, that of the second shorter and padded.
C13_Witness ==
    /\ Len(shown.rows) = 2
    /\ Len(shown.arriving[1].destination) > maxColumnWidth
    /\ Len(shown.arriving[2].destination) = 1
    /\ Len(shown.rows[1].cells[2]) = maxColumnWidth
    /\ shown.rows[2].cells[2] # shown.arriving[2].destination

\* The stops of batch b are in the stop cache.
BatchStored(b) ==
    /\ batch[b] = "done"
    /\ \A k \in Range(BatchFirst(b), BatchLast(b)) :
          k \in DOMAIN stopCache /\ stopCache[k].Id = ToStr(k)

\* C14: eventual completion of the warm-up.  When timers fire and the
\* catalog-page API in the end answers a batch that keeps being requested,
\* the stops of every batch are eventually in the cache, and stay; and an
\* attempt that failed is always followed by another attempt for that batch.
C14_WarmUpCompletes ==
    \A b \in Batches :
        /\ <>[]BatchStored(b)
        /\ [](batch[b] = "retry" => <>(batch[b] = "inflight"))

\* C14 witness: the first batch is stored while the second, whose attempt
\* failed, waits for the timer of its retry.
C14_Witness ==
    /\ NumBatches >= 2
    /\ BatchStored(1)
    /\ batch[2] = "retry"
    /\ \A k \in Range(BatchFirst(2), BatchLast(2)) : k \notin DOMAIN stopCache

\* C15: request handling is read-only on the stop cache: every stop of the
\* cache has the field values it was inserted with by the population task,
\* and in particular carries no arrivals.
C15_CacheReadOnly ==
    \A k \in DOMAIN stopCache :
        /\ stopCache[k] = buildStop(RawNode(k)).stop
        /\ ~stopCache[k].arriving.set

\* The requests of slots r1 and r2 both had their fetch write the arrivals
\* of the cached Stop object under key k.
BothWrote(r1, r2, k) ==
    \E i \in 1..Len(req[r1].fetch) : \E j \in 1..Len(req[r2].fetch) :
        /\ req[r1].stops[i] = CachedHandle(k) /\ req[r1].fetch[i] = "ok"
        /\ req[r2].stops[j] = CachedHandle(k) /\ req[r2].fetch[j] = "ok"

\* C16: the attachment of arrivals to a Stop is single-writer.  Whatever
\* the interleaving of the requests in flight, no Stop object has its
\* arrivals written by the fetches of two requests, and what a request
\* renders (in the answer of an inline query, in the edit of a refresh) are
\* arrivals its own fetch wrote.
C16_SingleWriter ==
    /\ \A r1, r2 \in Slots : \A k \in DOMAIN stopCache :
           r1 # r2 => ~BothWrote(r1, r2, k)
    /\ \A r \in Slots :
           /\ \A j \in 1..Len(req[r].answer.results) :
                 req[r].answer.results[j].fetchedBy = r
           /\ \A j \in 1..Len(req[r].edits) : req[r].edits[j].fetchedBy = r

\* The keys of the stops findStops resolved with, in their order.
ResolvedKeys(r) == [i \in 1..Len(req[r].stops) |-> req[r].stops[i].key]

RECURSIVE MatchedIn(_, _)
\* The keys of a list that matched the query of slot r when findStops ran.
MatchedIn(keys, r) ==
    IF keys = <<>> THEN <<>>
    ELSE (IF keys[1] \in MatchedAtCall(r) THEN <<keys[1]>> ELSE <<>>)
             \o MatchedIn(Tail(keys), r)

\* A prefix query that findStops resolved from the cache.
PrefixFromCache(r) ==
    /\ FindResolved(r)
    /\ ~req[r].exact
    /\ req[r].stops # <<>>
    /\ \A i \in 1..Len(req[r].stops) : req[r].stops[i].cached

\* C17, as claimed: a prefix query resolved from the cache returns the
\* matching stops in the order their ids were inserted into the cache,
\* whatever the order the batches completed in, cut to the first maxResults.
C17_InsertionOrder ==
    \A r \in Slots :
        PrefixFromCache(r)
        => ResolvedKeys(r) = Slice(MatchedIn(insertOrder, r), maxResults)

\* C17, amended: a prefix query resolved from the cache returns the matching
\* stops in ascending order of their numeric ids, whatever the order the
\* batches completed in, cut to the first maxResults.
C17_AscendingIdOrder ==
    \A r \in Slots :
        PrefixFromCache(r)
        => /\ ResolvedKeys(r) = Slice(SortedSeq(MatchedAtCall(r)), maxResults)
           /\ \A i, j \in 1..Len(req[r].stops) :
                 i < j => req[r].stops[i].key < req[r].stops[j].key

\* C17 witness: the second batch was stored before the first, then a prefix
\* query matched more than maxResults ids of both batches.
C17_Witness ==
    \E r \in Slots :
        /\ PrefixFromCache(r)
        /\ insertOrder # <<>>
        /\ insertOrder[1] > step
        /\ Cardinality(MatchedAtCall(r)) > maxResults
        /\ \E k \in MatchedAtCall(r) : k <= step
        /\ ResolvedKeys(r) # Slice(MatchedIn(insertOrder, r), maxResults)

\* C18: no failure of an outbound call escapes the core.  A catalog-page
\* fetch that failed leaves its batch waiting for a retry; a failed arrival
\* fetch is a resolved value; a failed location search, or a failed
\* normalisation of its stops, ends in the .catch of findStops and rejects
\* nothing; and every rejection inside a pipeline has the pipeline's final
\* .catch to run.
C18_FailuresAreCaught ==
    /\ \A b \in Batches : batch[b] \in {"scheduled", "inflight", "retry", "done"}
    /\ \A r \in Slots :
          /\ req[r].error \in {"location", "build"} => req[r].pc = "hung"
          /\ \A i \in 1..Len(req[r].fetch) : req[r].fetch[i] # "rejected"
          /\ req[r].pc = "rejected" =>
                /\ req[r].error \in {"empty", "count", "arrivals"}
                /\ ENABLED CatchError(r)

\* C18 witness: the catalog-page fetch of a batch failed and the location
\* search of a refresh failed; both were caught.
C18_Witness ==
    \E r \in Slots : \E b \in Batches :
        /\ batch[b] = "retry"
        /\ req[r].kind = "refresh"
        /\ req[r].locCalls = 1
        /\ req[r].pc = "hung"
        /\ req[r].error = "location"

\* C19: the stops-near-location API is called only when a location is
\* supplied: with both coordinates 0 no location search is issued.
C19_SearchOnlyWithLocation ==
    \A r \in Slots : req[r].locCalls > 0 => NonZeroLocation(req[r].location)

RECURSIVE ResolvableLabels(_)
\* The labels of the line tokens whose code is in the line table, in order.
ResolvableLabels(rawLines) ==
    IF rawLines = <<>> THEN <<>>
    ELSE (IF findXmlLine(Split(rawLines[1], "/")[1]) = {} THEN <<>>
          ELSE <<NodeLineLabel(rawLines[1])>>)
             \o ResolvableLabels(Tail(rawLines))

\* C20: the lines of a stop normalised from a catalog page are exactly the
\* labels of its resolvable line codes, in their order, and none of them is
\* empty or undefined.
C20_LinesAreResolvableLabels ==
    \A k \in DOMAIN stopCache :
        /\ stopCache[k].Lines = ResolvableLabels(NonEmpty(RawNode(k).lines))
        /\ \A i \in 1..Len(stopCache[k].Lines) :
              stopCache[k].Lines[i] # Undefined /\ stopCache[k].Lines[i] # <<>>

\* C21: the key set of the stop cache only grows: no step of the warm-up,
\* of a retry or of a request removes an id from the cache.
C21_KeysOnlyGrow == [][DOMAIN stopCache \subseteq DOMAIN stopCache']_vars

\* C21 witness: every batch is stored, and a request that was resolved from
\* the cache when it held fewer ids has been answered.
C21_Witness ==
    /\ \A b \in Batches : batch[b] = "done"
    /\ \E r \in Slots :
          /\ req[r].pc = "answered"
          /\ req[r].keysAtCall # {}
          /\ req[r].keysAtCall # DOMAIN stopCache
          /\ req[r].keysAtCall \subseteq DOMAIN stopCache

\* The ids batch b asks getNodesLines for.
IdsOf(b) == Range(BatchFirst(b), BatchLast(b))

\* C22: each stop id is written into the cache at most once.  An id enters
\* the cache only in the step that stores its batch, which starts with none
\* of the batch's ids in the cache; a stored batch stays stored and is never
\* requested again; and a batch that waits for a retry, or is requested, has
\* none of its ids in the cache.
C22_WrittenOnce ==
    /\ [](\A b \in Batches :
              batch[b] # "done" => IdsOf(b) \cap DOMAIN stopCache = {})
    /\ [][\A b \in Batches :
              /\ batch[b] = "done" => batch'[b] = "done"
              /\ (batch[b] # "done" /\ batch'[b] = "done") =>
                     /\ batch[b] = "inflight"
                     /\ IdsOf(b) \cap DOMAIN stopCache = {}
              /\ \A k \in IdsOf(b) :
                     (k \notin DOMAIN stopCache /\ k \in DOMAIN stopCache') =>
                         (batch[b] = "inflight" /\ batch'[b] = "done")]_vars

\* C22 witness: the second batch is stored while the first, whose attempt
\* failed, waits for its retry with none of its ids in the cache.
C22_Witness ==
    /\ NumBatches >= 2
    /\ batch[1] = "retry"
    /\ batch[2] = "done"
    /\ IdsOf(2) \subseteq DOMAIN stopCache
    /\ IdsOf(1) \cap DOMAIN stopCache = {}

\* C23: whatever the interleaving with the warm-up, a reader of the cache
\* finds under a key only a Stop whose normalisation finished: its id is the
\* key, and its name, its lines (one per non-empty line token) and its
\* position are set.
C23_CachedStopsAreComplete ==
    \A k \in DOMAIN stopCache :
        LET stop == stopCache[k]
        IN  /\ stop # NoStop
            /\ stop.Id = ToStr(k)
            /\ stop.idType = "number"
            /\ stop.Name # <<>>
            /\ Len(stop.Lines) = Len(NonEmpty(RawNode(k).lines))
            /\ stop.position = [latitude |-> RawNode(k).latitude,
                                longitude |-> RawNode(k).longitude]

\* C23 witness: a request reads stops of the cache, one of which got its
\* default name, while a batch of the warm-up is still in flight.
C23_Witness ==
    \E r \in Slots : \E b \in Batches :
        /\ batch[b] = "inflight"
        /\ req[r].pc = "resolved"
        /\ \E i \in 1..Len(req[r].stops) :
              /\ req[r].stops[i].cached
              /\ "name" \notin DOMAIN RawNode(req[r].stops[i].key)
              /\ StopObject(req[r].stops[i]).Name # <<>>

\* The batches whose ids were requested from getNodesLines.
RequestedBatches == {b \in Batches : batch[b] # "scheduled"}

\* The number of batches that ask for id k.
BatchesAsking(k) == Cardinality({b \in Batches : k \in IdsOf(b)})

\* C24, as claimed: the batches partition [1, maxId): every id from 1 up to
\* maxId - 1 is asked for by exactly one batch, and no batch asks for an id
\* that is maxId or more.
C24_PartitionBelowMaxId ==
    /\ \A k \in 1..(maxId - 1) : BatchesAsking(k) = 1
    /\ \A b \in RequestedBatches : \A k \in IdsOf(b) : k < maxId

\* C24, amended: the batches are consecutive ranges of step ids from 1 on,
\* the last one starting below maxId: every id from 1 up to maxId - 1 is
\* asked for by exactly one batch and no id by two; the last batch is a
\* full one, so that ids from maxId up to maxId + step - 2 can be asked
\* for, and when maxId is a multiple of step (as in the source) the last
\* batch asks for the id maxId itself; once every batch is stored the cache
\* holds all the ids from 1 to the last id of the last batch.
C24_PartitionThroughLastBatch ==
    /\ \A k \in 1..(maxId - 1) : BatchesAsking(k) = 1
    /\ \A b \in RequestedBatches : \A k \in IdsOf(b) :
          /\ BatchesAsking(k) = 1
          /\ 1 <= k /\ k <= maxId + step - 2
    /\ (maxId % step = 0 /\ NumBatches \in RequestedBatches)
           => maxId \in IdsOf(NumBatches)
    /\ (RequestedBatches = Batches /\ \A b \in Batches : batch[b] = "done")
           => DOMAIN stopCache = 1..(NumBatches * step)

\* C24 witness: every batch is stored and the cache holds the stop whose id
\* is maxId.
C24_Witness ==
    /\ \A b \in Batches : batch[b] = "done"
    /\ maxId \in DOMAIN stopCache
    /\ stopCache[maxId].Id = ToStr(maxId)

\* C25: for an inline query that resolved N stops, the N arrival fetches
\* are started together (one fetch per stop, all pending at once); the
\* answer is sent only when none of the N fetches is pending any more; and
\* while the query is fetching a step settles at most one fetch and leaves
\* the others as they are, a pending one staying able to settle whatever
\* became of the others.
C25_FetchesJoinedBeforeAnswer ==
    /\ [](\A r \in Slots : req[r].kind = "inline" =>
            /\ req[r].pc \in {"fetching", "answered"}
                  => Len(req[r].fetch) = Len(req[r].stops)
            /\ req[r].answer.sent
                  => \A i \in 1..Len(req[r].fetch) :
                        req[r].fetch[i] \in {"ok", "error"}
            /\ req[r].pc = "fetching"
                  => \A i \in 1..Len(req[r].fetch) :
                        req[r].fetch[i] = "pending" => ENABLED FetchFail(r, i))
    /\ [][\A r \in Slots :
            /\ (req[r].kind = "inline" /\ req[r].pc = "resolved"
                   /\ req'[r].pc = "fetching")
                  => /\ Len(req'[r].fetch) = Len(req[r].stops)
                     /\ \A i \in 1..Len(req'[r].fetch) :
                           req'[r].fetch[i] = "pending"
            /\ (req[r].kind = "inline" /\ req[r].pc = "fetching"
                   /\ req'[r].pc = "fetching")
                  => \A i, j \in 1..Len(req[r].fetch) :
                        (i # j /\ req'[r].fetch[i] # req[r].fetch[i])
                           => req'[r].fetch[j] = req[r].fetch[j]]_vars

\* C25 witness: a query over two stops was answered although the fetch for
\* its first stop failed, the fetch for the second having succeeded.
C25_Witness ==
    \E r \in Slots :
        /\ req[r].kind = "inline"
        /\ req[r].answer.sent
        /\ Len(req[r].fetch) = 2
        /\ req[r].fetch[1] = "error"
        /\ req[r].fetch[2] = "ok"

\* C26: in a rendered table every cell is as long as the computed width of
\* its column, being the printed value (cut when it is longer than
\* maxColumnWidth) followed by spaces only, and so all the rows of the table
\* have the same length: the widths, the two spaces between the three
\* cells and the two backquotes around them.
C26_CellsPaddedToWidth ==
    shown.arriving # <<>> =>
        /\ Len(shown.widths) = 3
        /\ \A i \in 1..Len(shown.rows) :
              LET cells == shown.rows[i].cells
                  fields == PrintedFields(shown.arriving[i])
              IN  /\ \A c \in 1..3 :
                        /\ Len(cells[c]) = shown.widths[c]
                        /\ IF Len(fields[c]) <= maxColumnWidth
                           THEN PaddedFrom(cells[c], fields[c])
                           ELSE cells[c] = SubSeq(fields[c], 1, maxColumnWidth - 3)
                                             \o <<".", ".", ".">>
                  /\ Len(shown.rows[i].text) =
                        shown.widths[1] + shown.widths[2] + shown.widths[3] + 4
                  /\ \A j \in 1..Len(shown.rows) :
                        Len(shown.rows[j].text) = Len(shown.rows[i].text)

\* C26 witness: a table of two rows whose line ids are one shorter and one
\* longer than maxColumnWidth and whose destinations are one as long as
\* maxColumnWidth and one empty; the short values were padded.
C26_Witness ==
    /\ Len(shown.rows) = 2
    /\ Len(shown.arriving[1].lineId) < maxColumnWidth
    /\ Len(shown.arriving[2].lineId) > maxColumnWidth
    /\ Len(shown.arriving[1].destination) = maxColumnWidth
    /\ shown.arriving[2].destination = <<>>
    /\ shown.rows[1].cells[1] # shown.arriving[1].lineId
    /\ Len(shown.rows[2].cells[2]) = maxColumnWidth
    /\ Len(shown.rows[1].text) = Len(shown.rows[2].text)

\* The raw stop has none of the fields Node, stopId and node.
NoShapeField(raw) ==
    ~Has(raw, "Node") /\ ~Has(raw, "stopId") /\ ~Has(raw, "node")

\* C27: buildStop takes a raw stop for the first shape, in the order Node,
\* stopId, node, whose field it has: a Stop built from a record that has
\* stopId (and no Node) has the id of stopId, whether or not node is there
\* too, and one built from a record with node alone has the id of node; a
\* record with Node yields no Stop from the other fields it may have; and a
\* record with none of the three fields, and only such a record, fails with
\* 'Bad raw stop' and yields no Stop.
C27_ShapeByFirstFieldPresent ==
    normalised.done =>
        LET raw == normalised.raw
            out == normalised.out
        IN  /\ Has(raw, "Node") => out.shape = "Node" /\ ~out.ok
            /\ (~Has(raw, "Node") /\ Has(raw, "stopId"))
                  => /\ out.shape = "stopId"
                     /\ out.ok => (out.stop.Id = raw.stopId
                                     /\ out.stop.idType = "string")
            /\ (~Has(raw, "Node") /\ ~Has(raw, "stopId") /\ Has(raw, "node"))
                  => /\ out.shape = "node"
                     /\ out.ok => (out.stop.Id = ToStr(raw.node)
                                     /\ out.stop.idType = "number")
            /\ NoShapeField(raw)
                  => /\ ~out.ok
                     /\ out.error = "Bad raw stop"
                     /\ out.stop = NoStop
            /\ out.error = "Bad raw stop" => NoShapeField(raw)
            /\ ~out.ok => out.stop = NoStop

\* C27 witness: a record that has both stopId and node, and no Node, was
\* built into the Stop of its stopId.
C27_Witness ==
    /\ normalised.done
    /\ Has(normalised.raw, "stopId") /\ Has(normalised.raw, "node")
    /\ ~Has(normalised.raw, "Node")
    /\ normalised.out.ok
    /\ normalised.out.stop.Id = normalised.raw.stopId

\* The text ends with the suffix.
EndsWith(text, suffix) ==
    /\ Len(suffix) <= Len(text)
    /\ SubSeq(text, Len(text) - Len(suffix) + 1, Len(text)) = suffix

\* C28: the label of a line ends with " ida" or with " vuelta" by the
\* convention of the shape of the stop.  For a catalog-page stop (node) the
\* label of a token found in the line table ends with " ida" exactly when
\* the direction of the token is "1", and with " vuelta" for any other or
\* no direction; for a location-search stop (stopId) the label is the line
\* followed by " ida" exactly when the direction is "B", and by " vuelta"
\* for any other value, "1" included.
C28_DirectionLabels ==
    (normalised.done /\ normalised.out.ok) =>
        LET raw == normalised.raw
            Lines == normalised.out.stop.Lines
        IN  /\ normalised.out.shape = "stopId" =>
                  /\ Len(Lines) = Len(raw.line)
                  /\ \A i \in 1..Len(Lines) :
                        Lines[i] = raw.line[i].line \o
                            (IF raw.line[i].direction = "B"
                             THEN <<" ", "ida">> ELSE <<" ", "vuelta">>)
            /\ normalised.out.shape = "node" =>
                  LET tokens == NonEmpty(raw.lines)
                  IN  /\ Len(Lines) = Len(tokens)
                      /\ \A i \in 1..Len(Lines) :
                            LET temp == Split(tokens[i], "/")
                                one == Len(temp) >= 2 /\ temp[2] = <<"1">>
                            IN  Lines[i] # Undefined =>
                                  /\ EndsWith(Lines[i], <<" ", "ida">>) <=> one
                                  /\ EndsWith(Lines[i], <<" ", "vuelta">>)
                                         <=> ~one

\* C28 witness: a location-search stop with a line of direction "B",
\* labelled ida, and a line of direction "1", labelled vuelta.
C28_Witness ==
    /\ normalised.done /\ normalised.out.ok
    /\ normalised.out.shape = "stopId"
    /\ Len(normalised.raw.line) = 2
    /\ normalised.raw.line[1].direction = "B"
    /\ normalised.raw.line[2].direction = "1"
    /\ EndsWith(normalised.out.stop.Lines[1], <<" ", "ida">>)
    /\ EndsWith(normalised.out.stop.Lines[2], <<" ", "vuelta">>)

\* The pipeline of the request of slot r has come to its end: every call it
\* made to the EMT API has settled and none of its callbacks is left to run.
PipelineEnded(r) == req[r].pc \in {"logged", "hung", "answered"}

\* C29: every inline query is answered, once, whatever the outcome of
\* finding the stops, of normalising them and of fetching the arrivals.
\* Stated at the end of the pipeline: an inline query whose calls have all
\* settled and whose callbacks have all run was answered.
C29_InlineQueryAnswered ==
    \A r \in Slots :
        (req[r].kind = "inline" /\ PipelineEnded(r)) => req[r].answer.sent

\* C30: a refresh for stop id S edits the message only with the stop S:
\* every edit of a refresh was rendered from a stop whose id is the id the
\* refresh asked for.
C30_RefreshEditsItsStop ==
    \A r \in Slots :
        req[r].kind = "refresh" =>
            \A j \in 1..Len(req[r].edits) :
                req[r].edits[j].stopId = req[r].query

\* C31: every callback query is acknowledged with answerCallbackQuery
\* exactly once, whatever its data.
C31_CallbackAcknowledgedOnce ==
    \A r \in Slots :
        req[r].kind \in {"refresh", "callback"} => req[r].acks = 1

\* C32: a failed attempt of a batch (the fetch of the page failed, or one
\* record of the page could not be normalised) writes nothing: the step
\* that sends the batch to its retry leaves the stop cache and the order of
\* its keys as they were and changes the schedule of no other batch; and
\* the batch to retry does nothing but request its range again, the stops
\* it stores in the end being those of that same range.
C32_FailedAttemptWritesNothing ==
    /\ [][\A b \in Batches :
            (batch[b] = "inflight" /\ batch'[b] = "retry")
               => /\ stopCache' = stopCache
                  /\ insertOrder' = insertOrder
                  /\ \A c \in Batches \ {b} : batch'[c] = batch[c]]_vars
    /\ [][\A b \in Batches :
            batch[b] = "retry"
               => /\ batch'[b] \in {"retry", "inflight"}
                  /\ IdsOf(b) \cap DOMAIN stopCache' = {}]_vars
    /\ [](\A b \in Batches :
            batch[b] = "done" => \A k \in IdsOf(b) : k \in DOMAIN stopCache)

\* C32 witness: the second batch failed and waits for its retry while the
\* cache holds the stops of the first batch, and only them.
C32_Witness ==
    /\ NumBatches >= 2
    /\ batch[1] = "done"
    /\ batch[2] = "retry"
    /\ DOMAIN stopCache = IdsOf(1)
    /\ Len(insertOrder) = Cardinality(IdsOf(1))

\* The positions, in ascending order, of the stops of the request of slot r
\* whose fetch did not fail.
FetchedPositions(r) ==
    SortedSeq({i \in 1..Len(req[r].fetch) : req[r].fetch[i] # "error"})

\* C33: the results sent for an inline query are the stops findStops
\* resolved with, in that order, without those whose fetch failed: the
\* j-th result is the stop at the j-th position whose fetch did not fail,
\* in whatever order the fetches settled.
C33_ResultsKeepResolverOrder ==
    \A r \in Slots :
        (req[r].kind = "inline" /\ req[r].answer.sent) =>
            LET kept == FetchedPositions(r)
                results == req[r].answer.results
            IN  /\ Len(results) = Len(kept)
                /\ \A j \in 1..Len(results) :
                      results[j].stopId = StopObject(req[r].stops[kept[j]]).Id

\* C33 witness: an inline query answered with two results, of two
\* different stops, the stops it resolved with.
C33_Witness ==
    \E r \in Slots :
        /\ req[r].kind = "inline"
        /\ req[r].answer.sent
        /\ Len(req[r].stops) = 2
        /\ Len(req[r].answer.results) = 2
        /\ req[r].answer.results[1].stopId # req[r].answer.results[2].stopId
        /\ req[r].answer.results[1].stopId = StopObject(req[r].stops[1]).Id

====
